---- MODULE Spec2Model ----
(***************************************************************************)
(* Model of src/unlock_indicator.c: the glyph builder string_repeat, the   *)
(* renderer draw_image, the cached background pixmap (bg_pixmap,           *)
(* free_bg_pixmap) and the redraw entry points redraw_screen and           *)
(* clear_indicator, together with the collaborators that change the        *)
(* shared variables the file reads (i3lock.c) and the X connection.        *)
(***************************************************************************)
EXTENDS Integers, Sequences, FiniteSets, TLC

(***************************************************************************)
(* Bounds of the model.                                                    *)
(***************************************************************************)
\* input_position ranges over 0..MaxSmallInput and two values at and above
\* the glyph cap (64 and 64 + MaxSmallInput).
MaxSmallInput == 1
\* xcb_generate_id hands out at most this many pixmap ids.
MaxPixmaps == 2
\* Requests that may sit unflushed in the connection's output queue.
MaxQueue == 2
\* Longest glyph (in bytes) handed to string_repeat on its own.
MaxGlyphLen == 3
\* Counts handed to string_repeat on its own lie within this distance of 0
\* and of the cap.
MaxCountSlack == 2
\* Most screens in a topology handed to the placement on its own.
MaxScreens == 2

(***************************************************************************)
(* Program constants.                                                      *)
(***************************************************************************)
\* if (n >= 64) n = 64;
MaxGlyphs == 64
\* char *text = malloc(256);
TextSize == 256
\* xcb.h: XCB_NONE
XCB_NONE == 0

\* i3lock.h: unlock_state_t
STATE_STARTED == 0
STATE_KEY_PRESSED == 1
STATE_KEY_ACTIVE == 2
STATE_BACKSPACE_ACTIVE == 3
STATE_NOTHING_TO_DELETE == 4
UnlockStates == STATE_STARTED..STATE_NOTHING_TO_DELETE

\* i3lock.h: auth_state_t
STATE_AUTH_IDLE == 0
STATE_AUTH_VERIFY == 1
STATE_AUTH_LOCK == 2
STATE_AUTH_WRONG == 3
STATE_I3LOCK_LOCK_FAILED == 4
AuthStates == STATE_AUTH_IDLE..STATE_I3LOCK_LOCK_FAILED

\* The UTF-8 encoding of the dot glyph, U+2022.
Dot == <<226, 128, 162>>
\* The bytes a glyph may be made of, the string terminator, and the value of
\* a byte of malloc'ed memory that was never written.
GlyphBytes == {226, 128, 162}
NUL == 0
Uninit == -1

\* cairo_set_source_rgb arguments of the overlay, as numerators over 255.
BlueGray == <<84, 110, 122>>
Red == <<255, 83, 112>>
White == <<255, 255, 255>>

\* Values the collaborators give the shared variables.
InputLengths == (0..MaxSmallInput) \cup {MaxGlyphs, MaxGlyphs + MaxSmallInput}
Resolutions == {<<800, 600>>, <<1024, 768>>}

\* randr.c: the rectangles xr_resolutions may hold.
Rects ==
    {[x |-> 0, y |-> 0, width |-> 800, height |-> 600],
     [x |-> 800, y |-> 0, width |-> 1024, height |-> 768],
     [x |-> 0, y |-> 600, width |-> 1365, height |-> 767]}

\* i3lock.c: what the command line leaves in color, img, tile,
\* show_on_screen and unlock_indicator, with the topology randr.c found.
\* color is a string of six characters, one per element.
DefaultColor == <<"f", "f", "f", "f", "f", "f">>
DefaultConfigs ==
    {[color |-> DefaultColor, img |-> FALSE, tile |-> FALSE,
      xr_resolutions |-> <<>>, show_on_screen |-> -1, unlock_indicator |-> ui] :
        ui \in BOOLEAN}
Configs ==
    DefaultConfigs \cup
    {[color |-> <<"1", "a", "2", "B", "3", "c">>, img |-> TRUE, tile |-> FALSE,
      xr_resolutions |-> <<[x |-> 0, y |-> 0, width |-> 800, height |-> 600],
                           [x |-> 800, y |-> 0, width |-> 1024, height |-> 768]>>,
      show_on_screen |-> 1, unlock_indicator |-> TRUE],
     [color |-> DefaultColor, img |-> TRUE, tile |-> TRUE,
      xr_resolutions |-> <<[x |-> 0, y |-> 600, width |-> 1365, height |-> 767],
                           [x |-> 800, y |-> 0, width |-> 1024, height |-> 768]>>,
      show_on_screen |-> 2, unlock_indicator |-> TRUE]}

(***************************************************************************)
(* C strings in a byte buffer.  A buffer is [mem, oob]: mem maps each      *)
(* index of the allocation to a byte, oob records a write outside it.      *)
(***************************************************************************)
malloc(size) == [mem |-> [i \in 0..(size - 1) |-> Uninit], oob |-> FALSE]

Poke(buf, i, b) ==
    IF i \in DOMAIN buf.mem
    THEN [buf EXCEPT !.mem[i] = b]
    ELSE [buf EXCEPT !.oob = TRUE]

Peek(buf, i) == IF i \in DOMAIN buf.mem THEN buf.mem[i] ELSE Uninit

\* strcpy(dest + at, str): the bytes of str, then the terminator.
RECURSIVE strcpy_from(_, _, _, _)
strcpy_from(buf, at, str, k) ==
    IF k > Len(str)
    THEN Poke(buf, at + Len(str), NUL)
    ELSE strcpy_from(Poke(buf, at + k - 1, str[k]), at, str, k + 1)

strcpy(buf, at, str) == strcpy_from(buf, at, str, 1)

\* strlen: the index of the first NUL (the size of the allocation when the
\* buffer holds none).
strlen(buf) ==
    LET nuls == {i \in DOMAIN buf.mem : buf.mem[i] = NUL}
    IN IF nuls = {} THEN Cardinality(DOMAIN buf.mem)
       ELSE CHOOSE i \in nuls : \A j \in nuls : i <= j

\* The string a reader of the buffer sees: the bytes before the first NUL.
CString(buf) == [i \in 1..strlen(buf) |-> buf.mem[i - 1]]

\* One iteration of   while (pa >= dest) *pa-- = *pb--;   with pa and pb as
\* offsets from dest.
copy_step(st) ==
    [buf |-> Poke(st.buf, st.pa, Peek(st.buf, st.pb)),
     pa |-> st.pa - 1, pb |-> st.pb - 1]

\* k iterations in a row, the first half before the second.  The test on
\* half.pa always succeeds; it makes the first half a value before the
\* second half starts.
RECURSIVE copy_steps(_, _)
copy_steps(st, k) ==
    IF k = 0 THEN st
    ELSE IF k = 1 THEN copy_step(st)
    ELSE LET half == copy_steps(st, k \div 2)
         IN IF half.pa < st.pa THEN copy_steps(half, k - (k \div 2)) ELSE half

\* The whole loop: it runs while pa >= dest, that is pa + 1 times.
copy_down(buf, pa, pb) ==
    copy_steps([buf |-> buf, pa |-> pa, pb |-> pb],
               IF pa >= 0 THEN pa + 1 ELSE 0).buf

\* The clamp is at 128 copies.
string_repeat_clamps_at_128(dest, str, n) ==
    IF n <= 0 THEN dest
    ELSE LET m == IF n >= 128 THEN 128 ELSE n
             slen == Len(str)
             pa == (m - 1) * slen
             copied == strcpy(dest, pa, str)
         IN copy_down(copied, pa - 1, pa - 1 + slen)

\* A dropped clamp: more than 64 copies are written.
string_repeat_unclamped(dest, str, n) ==
    IF n <= 0 THEN dest
    ELSE LET slen == Len(str)
             pa == (n - 1) * slen
             copied == strcpy(dest, pa, str)
         IN copy_down(copied, pa - 1, pa - 1 + slen)

\* static void string_repeat(char *dest, const char *str, int n)
string_repeat(dest, str, n) ==
    IF n <= 0 THEN dest
    ELSE LET m == IF n >= MaxGlyphs THEN MaxGlyphs ELSE n
             slen == Len(str)
             pa == (m - 1) * slen
             copied == strcpy(dest, pa, str)
         IN copy_down(copied, pa - 1, pa - 1 + slen)

\* The text buffer of draw_image after string_repeat(text, "•", n), for
\* every length the model uses (computed once).
DotText == [n \in InputLengths |-> string_repeat(strcpy(malloc(TextSize), 0, <<>>), Dot, n)]

(***************************************************************************)
(* State.  The globals of unlock_indicator.c and i3lock.c, the X server's  *)
(* pixmaps and the connection's output queue; op and reqs record the step  *)
(* just taken and the requests it issued, in the order it issued them.     *)
(***************************************************************************)
VARIABLES
    unlock_state,         \* unlock_state_t unlock_state
    auth_state,           \* auth_state_t auth_state
    input_position,       \* extern int input_position
    last_input_position,  \* static int last_input_position
    last_resolution,      \* extern uint32_t last_resolution[2]
    unlock_indicator,     \* extern bool unlock_indicator
    color,                \* extern char color[7]
    img,                  \* extern cairo_surface_t *img (whether there is one)
    tile,                 \* extern bool tile
    xr_resolutions,       \* randr.h: xr_resolutions[0 .. xr_screens - 1]
    show_on_screen,       \* extern int show_on_screen
    vistype,              \* static xcb_visualtype_t *vistype ("NULL" until resolved)
    bg_pixmap,            \* static xcb_pixmap_t bg_pixmap
    next_xid,             \* the next id xcb_generate_id returns
    pixmaps,              \* id -> [size, live, content] of every pixmap created
    outq,                 \* requests written to conn and not yet flushed
    op,                   \* the step just taken
    reqs,                 \* the requests of that step, in order
    held,                 \* what that step allocated and had not released at its end
    fn_in, fn_out, fn_pc, \* a function of the file applied on its own
    rep_dest, rep_str, rep_n, rep_pc,   \* string_repeat applied on its own
    recent, turn, all_overlay,          \* the update/render sequence of SpecSeq
    repeated              \* SpecRender: redraw_screen ran directly after itself

progvars == <<unlock_state, auth_state, input_position, last_input_position,
              last_resolution, unlock_indicator, color, img, tile,
              xr_resolutions, show_on_screen, vistype, bg_pixmap, next_xid,
              pixmaps, outq, op, reqs, held>>
fnvars == <<fn_in, fn_out, fn_pc>>
repvars == <<rep_dest, rep_str, rep_n, rep_pc>>
seqvars == <<recent, turn, all_overlay, repeated>>
vars == <<progvars, repvars, seqvars, fnvars>>

\* The program state as one value, so that a C function is an operator
\* from the state before the call to the state after it.
State ==
    [unlock_state |-> unlock_state, auth_state |-> auth_state,
     input_position |-> input_position,
     last_input_position |-> last_input_position,
     last_resolution |-> last_resolution,
     unlock_indicator |-> unlock_indicator,
     color |-> color, img |-> img, tile |-> tile,
     xr_resolutions |-> xr_resolutions, xr_screens |-> Len(xr_resolutions),
     show_on_screen |-> show_on_screen, vistype |-> vistype,
     bg_pixmap |-> bg_pixmap, next_xid |-> next_xid, pixmaps |-> pixmaps,
     outq |-> outq, reqs |-> <<>>, held |-> {}]

Commit(s, name) ==
    /\ unlock_state' = s.unlock_state
    /\ auth_state' = s.auth_state
    /\ input_position' = s.input_position
    /\ last_input_position' = s.last_input_position
    /\ last_resolution' = s.last_resolution
    /\ unlock_indicator' = s.unlock_indicator
    /\ color' = s.color
    /\ img' = s.img
    /\ tile' = s.tile
    /\ xr_resolutions' = s.xr_resolutions
    /\ show_on_screen' = s.show_on_screen
    /\ vistype' = s.vistype
    /\ bg_pixmap' = s.bg_pixmap
    /\ next_xid' = s.next_xid
    /\ pixmaps' = s.pixmaps
    /\ outq' = s.outq
    /\ reqs' = s.reqs
    /\ held' = s.held
    /\ op' = name

LivePixmaps(pm) == {p \in DOMAIN pm : pm[p].live}

(***************************************************************************)
(* The X connection.                                                       *)
(***************************************************************************)
\* A request is written to the connection's output queue.
xcb_request(s, r) ==
    [s EXCEPT !.outq = Append(@, r), !.reqs = Append(@, r)]

\* xcb_flush(conn): everything queued is sent to the server.
xcb_flush(s) ==
    [s EXCEPT !.outq = <<>>, !.reqs = Append(@, [req |-> "Flush"])]

\* xcb_free_pixmap(conn, pixmap): the request is issued whatever the id is;
\* the server destroys the pixmap when the id names one.
xcb_free_pixmap(s, pixmap) ==
    LET t == xcb_request(s, [req |-> "FreePixmap", id |-> pixmap])
    IN IF pixmap \in LivePixmaps(s.pixmaps)
       THEN [t EXCEPT !.pixmaps[pixmap].live = FALSE,
                      !.pixmaps[pixmap].content = <<>>]
       ELSE t

\* xcb_change_window_attributes(conn, win, XCB_CW_BACK_PIXMAP, {pixmap})
xcb_change_window_attributes(s, pixmap) ==
    xcb_request(s, [req |-> "ChangeWindowAttributes", id |-> pixmap])

\* xcb_clear_area(conn, 0, win, 0, 0, width, height)
xcb_clear_area(s, resolution) ==
    xcb_request(s, [req |-> "ClearArea", size |-> resolution])

\* The value of one character as a digit in base 16, -1 when it is none.
HexChars == <<"0", "1", "2", "3", "4", "5", "6", "7", "8", "9",
              "a", "b", "c", "d", "e", "f">>
UpperHexChars == <<"A", "B", "C", "D", "E", "F">>
hex_digit(c) ==
    IF \E i \in DOMAIN HexChars : HexChars[i] = c
    THEN (CHOOSE i \in DOMAIN HexChars : HexChars[i] = c) - 1
    ELSE IF \E i \in DOMAIN UpperHexChars : UpperHexChars[i] = c
         THEN (CHOOSE i \in DOMAIN UpperHexChars : UpperHexChars[i] = c) + 9
         ELSE -1

\* strtol(str, NULL, 16) on a string without blanks, sign or prefix: the
\* digits are accumulated from the left up to the first character that is
\* no digit.
RECURSIVE strtol_from(_, _, _)
strtol_from(str, i, acc) ==
    IF i > Len(str) \/ hex_digit(str[i]) < 0 THEN acc
    ELSE strtol_from(str, i + 1, acc * 16 + hex_digit(str[i]))
strtol(str) == strtol_from(str, 1, 0)

\* char strgroups[3][3] = {{color[0], color[1], '\0'}, ...}
strgroups(c) == <<<<c[1], c[2]>>, <<c[3], c[4]>>, <<c[5], c[6]>>>>

\* The groups are read in the order blue, green, red.
rgb16_reversed(c) ==
    <<strtol(strgroups(c)[3]), strtol(strgroups(c)[2]), strtol(strgroups(c)[1])>>

\* uint32_t rgb16[3] = {strtol(strgroups[0], NULL, 16), ...}
rgb16(c) ==
    <<strtol(strgroups(c)[1]), strtol(strgroups(c)[2]), strtol(strgroups(c)[3])>>

\* A double in [0, 1] is kept as its numerator over FracScale.
FracScale == 2^20

\* rgb16[i] / 255.0: the quotient, rounded to a neighbouring fraction either
\* way.
divide_by_255(v) == {(v * FracScale) \div 255, (v * FracScale + 254) \div 255}

\* cairo_set_source_rgb(xcb_ctx, rgb16[0] / 255.0, rgb16[1] / 255.0,
\*                      rgb16[2] / 255.0): the channels cairo may be given.
source_rgb(rgb) ==
    {<<r, g, b>> : r \in divide_by_255(rgb[1]), g \in divide_by_255(rgb[2]),
                   b \in divide_by_255(rgb[3])}

\* rgb16 for the colours of the configurations (computed once).
Rgb16Shown == [c \in {cfg.color : cfg \in Configs} |-> rgb16(c)]

\* xcb.c: create_bg_pixmap(conn, screen, resolution, color): a new pixmap of
\* the given size, filled with the background colour.
create_bg_pixmap(s, resolution) ==
    LET id == s.next_xid
        made == [size |-> resolution, live |-> TRUE,
                 content |-> [cleared |-> resolution, bg |-> Rgb16Shown[s.color],
                              image |-> "none", overlay |-> FALSE,
                              text |-> <<>>, rgb |-> <<>>, at |-> <<>>]]
        t == xcb_request(s, [req |-> "CreatePixmap", id |-> id,
                             size |-> resolution])
    IN [st |-> [t EXCEPT !.next_xid = id + 1,
                         !.pixmaps = (id :> made) @@ @],
        id |-> id]

\* The string cairo_show_text reads from DotText[n] (computed once).
DotShown == [n \in InputLengths |-> CString(DotText[n])]

(***************************************************************************)
(* unlock_indicator.c                                                      *)
(***************************************************************************)
\* The overlay is drawn whenever the indicator is enabled.
overlay_drawn_in_any_state(s) == s.unlock_indicator

\* if (unlock_indicator &&
\*     (unlock_state >= STATE_KEY_PRESSED || auth_state > STATE_AUTH_IDLE))
overlay_drawn(s) ==
    /\ s.unlock_indicator
    /\ (s.unlock_state >= STATE_KEY_PRESSED \/ s.auth_state > STATE_AUTH_IDLE)

\* A wrong password is red in every unlock_state.
text_colour_wrong_is_red(s) ==
    CASE s.auth_state = STATE_AUTH_VERIFY -> BlueGray
      [] s.auth_state = STATE_AUTH_LOCK -> BlueGray
      [] s.auth_state = STATE_AUTH_WRONG -> Red
      [] s.auth_state = STATE_I3LOCK_LOCK_FAILED -> Red
      [] OTHER -> White

\* switch (auth_state): the colour of the text.
text_colour(s) ==
    CASE s.auth_state = STATE_AUTH_VERIFY -> BlueGray
      [] s.auth_state = STATE_AUTH_LOCK -> BlueGray
      [] s.auth_state = STATE_AUTH_WRONG ->
            IF s.unlock_state < STATE_KEY_PRESSED THEN Red ELSE White
      [] s.auth_state = STATE_I3LOCK_LOCK_FAILED -> Red
      [] OTHER -> White

\* if (!vistype) vistype = get_root_visual_type(screen);
root_visual_type(s) == IF s.vistype = "NULL" THEN "root_visual" ELSE s.vistype

\* if (img) { if (!tile) paint it once; else fill the rectangle with it }
image_drawn(s) ==
    IF s.img THEN (IF ~s.tile THEN "painted" ELSE "tiled") ELSE "none"

\* The requested screen is used whatever the topology holds.
place_indicator_unchecked(s) ==
    IF s.xr_screens > 0
    THEN LET selected_screen == IF s.show_on_screen >= 0
                                THEN s.show_on_screen ELSE 0
         IN [read |-> {selected_screen},
             center |-> IF selected_screen + 1 \in DOMAIN s.xr_resolutions
                        THEN <<s.xr_resolutions[selected_screen + 1].width \div 2,
                               s.xr_resolutions[selected_screen + 1].height \div 2>>
                        ELSE <<>>,
             offset |-> IF selected_screen + 1 \in DOMAIN s.xr_resolutions
                        THEN <<s.xr_resolutions[selected_screen + 1].x,
                               s.xr_resolutions[selected_screen + 1].y>>
                        ELSE <<>>]
    ELSE [read |-> {},
          center |-> <<s.last_resolution[1] \div 2, s.last_resolution[2] \div 2>>,
          offset |-> <<0, 0>>]

\* if (xr_screens > 0) { selected_screen ...; screen_center_x = ... } else ...
\* read is the set of indices of xr_resolutions the code reads (from 0).
place_indicator(s) ==
    IF s.xr_screens > 0
    THEN LET selected_screen ==
                 IF s.show_on_screen >= 0 /\ s.show_on_screen < s.xr_screens
                 THEN s.show_on_screen ELSE 0
         IN [read |-> {selected_screen},
             center |-> <<s.xr_resolutions[selected_screen + 1].width \div 2,
                          s.xr_resolutions[selected_screen + 1].height \div 2>>,
             offset |-> <<s.xr_resolutions[selected_screen + 1].x,
                          s.xr_resolutions[selected_screen + 1].y>>]
    ELSE [read |-> {},
          center |-> <<s.last_resolution[1] \div 2, s.last_resolution[2] \div 2>>,
          offset |-> <<0, 0>>]

\* What the pixmap holds once output is composited onto it: the fill with
\* the background colour, the image, and the overlay when it was drawn.
composited(s, resolution, overlay, text, rgb) ==
    IF overlay
    THEN LET placed == place_indicator(s)
         IN [cleared |-> resolution, bg |-> Rgb16Shown[s.color],
             image |-> image_drawn(s), overlay |-> TRUE, text |-> text,
             rgb |-> rgb,
             at |-> [center |-> placed.center, offset |-> placed.offset]]
    ELSE [cleared |-> resolution, bg |-> Rgb16Shown[s.color],
          image |-> image_drawn(s), overlay |-> FALSE, text |-> <<>>,
          rgb |-> <<>>, at |-> <<>>]

\* What draw_image allocates (cairo_image_surface_create, cairo_create,
\* cairo_xcb_surface_create, cairo_pattern_create_for_surface, malloc) less
\* what it destroys before it returns.
still_allocated(s, overlay) ==
    LET allocated == {"output", "ctx", "xcb_output", "xcb_ctx"}
                     \cup (IF s.img /\ s.tile THEN {"pattern"} ELSE {})
                     \cup (IF overlay THEN {"text"} ELSE {})
        destroyed == {"xcb_output", "output", "ctx", "xcb_ctx"}
                     \cup (IF s.img /\ s.tile THEN {"pattern"} ELSE {})
    IN allocated \ destroyed

\* The guard input_position > 0 is missing: an empty buffer is remembered.
draw_image_unguarded(s, pixmap, resolution) ==
    LET overlay == overlay_drawn(s)
        lip == IF overlay THEN s.input_position ELSE s.last_input_position
        n == IF s.auth_state \in {STATE_AUTH_WRONG, STATE_I3LOCK_LOCK_FAILED}
             THEN lip ELSE s.input_position
        frame == composited(s, resolution, overlay, DotShown[n], text_colour(s))
        t == xcb_request(s, [req |-> "Draw", id |-> pixmap, size |-> resolution,
                             unlock_state |-> s.unlock_state])
        u == [t EXCEPT !.last_input_position = lip,
                       !.held = still_allocated(s, overlay),
                       !.vistype = root_visual_type(s)]
    IN IF pixmap \in LivePixmaps(u.pixmaps)
       THEN [u EXCEPT !.pixmaps[pixmap].content = frame]
       ELSE u

\* The overlay is drawn, but last_input_position is never written.
draw_image_no_remember(s, pixmap, resolution) ==
    LET n == IF s.auth_state \in {STATE_AUTH_WRONG, STATE_I3LOCK_LOCK_FAILED}
             THEN s.last_input_position ELSE s.input_position
        frame == composited(s, resolution, overlay_drawn(s), DotShown[n],
                            text_colour(s))
        t == [xcb_request(s, [req |-> "Draw", id |-> pixmap, size |-> resolution,
                              unlock_state |-> s.unlock_state])
                EXCEPT !.held = still_allocated(s, overlay_drawn(s)),
                       !.vistype = root_visual_type(s)]
    IN IF pixmap \in LivePixmaps(t.pixmaps)
       THEN [t EXCEPT !.pixmaps[pixmap].content = frame]
       ELSE t

\* The text is emptied in STATE_NOTHING_TO_DELETE whatever auth_state is.
draw_image_empties_in_every_branch(s, pixmap, resolution) ==
    LET overlay == overlay_drawn(s)
        lip == IF overlay /\ s.input_position > 0
               THEN s.input_position ELSE s.last_input_position
        n == IF s.auth_state \in {STATE_AUTH_WRONG, STATE_I3LOCK_LOCK_FAILED}
             THEN lip ELSE s.input_position
        emptied == s.unlock_state = STATE_NOTHING_TO_DELETE
        shown == IF emptied THEN CString(strcpy(DotText[n], 0, <<>>))
                 ELSE DotShown[n]
        frame == composited(s, resolution, overlay, shown, text_colour(s))
        t == xcb_request(s, [req |-> "Draw", id |-> pixmap, size |-> resolution,
                             unlock_state |-> s.unlock_state])
        u == [t EXCEPT !.last_input_position = lip,
                       !.held = still_allocated(s, overlay),
                       !.vistype = root_visual_type(s)]
    IN IF pixmap \in LivePixmaps(u.pixmaps)
       THEN [u EXCEPT !.pixmaps[pixmap].content = frame]
       ELSE u

\* The drawing is followed by a flush of the connection.
draw_image_and_flush(s, pixmap, resolution) ==
    LET overlay == overlay_drawn(s)
        lip == IF overlay /\ s.input_position > 0
               THEN s.input_position ELSE s.last_input_position
        n == IF s.auth_state \in {STATE_AUTH_WRONG, STATE_I3LOCK_LOCK_FAILED}
             THEN lip ELSE s.input_position
        emptied == /\ s.auth_state \notin {STATE_AUTH_VERIFY, STATE_AUTH_LOCK,
                                           STATE_AUTH_WRONG, STATE_I3LOCK_LOCK_FAILED}
                   /\ s.unlock_state = STATE_NOTHING_TO_DELETE
        shown == IF emptied THEN CString(strcpy(DotText[n], 0, <<>>))
                 ELSE DotShown[n]
        frame == composited(s, resolution, overlay, shown, text_colour(s))
        t == xcb_request(s, [req |-> "Draw", id |-> pixmap, size |-> resolution,
                             unlock_state |-> s.unlock_state])
        u == [t EXCEPT !.last_input_position = lip,
                       !.held = still_allocated(s, overlay),
                       !.vistype = root_visual_type(s)]
    IN xcb_flush(IF pixmap \in LivePixmaps(u.pixmaps)
                 THEN [u EXCEPT !.pixmaps[pixmap].content = frame]
                 ELSE u)

\* The glyphs always count input_position.
draw_image_counts_input(s, pixmap, resolution) ==
    LET overlay == overlay_drawn(s)
        lip == IF overlay /\ s.input_position > 0
               THEN s.input_position ELSE s.last_input_position
        n == s.input_position
        emptied == /\ s.auth_state \notin {STATE_AUTH_VERIFY, STATE_AUTH_LOCK,
                                           STATE_AUTH_WRONG, STATE_I3LOCK_LOCK_FAILED}
                   /\ s.unlock_state = STATE_NOTHING_TO_DELETE
        shown == IF emptied THEN CString(strcpy(DotText[n], 0, <<>>))
                 ELSE DotShown[n]
        frame == composited(s, resolution, overlay, shown, text_colour(s))
        t == xcb_request(s, [req |-> "Draw", id |-> pixmap, size |-> resolution,
                             unlock_state |-> s.unlock_state])
        u == [t EXCEPT !.last_input_position = lip,
                       !.held = still_allocated(s, overlay),
                       !.vistype = root_visual_type(s)]
    IN IF pixmap \in LivePixmaps(u.pixmaps)
       THEN [u EXCEPT !.pixmaps[pixmap].content = frame]
       ELSE u

\* The count of glyphs is chosen before last_input_position is updated.
draw_image_remembers_late(s, pixmap, resolution) ==
    LET overlay == overlay_drawn(s)
        lip == IF overlay /\ s.input_position > 0
               THEN s.input_position ELSE s.last_input_position
        n == IF s.auth_state \in {STATE_AUTH_WRONG, STATE_I3LOCK_LOCK_FAILED}
             THEN s.last_input_position ELSE s.input_position
        emptied == /\ s.auth_state \notin {STATE_AUTH_VERIFY, STATE_AUTH_LOCK,
                                           STATE_AUTH_WRONG, STATE_I3LOCK_LOCK_FAILED}
                   /\ s.unlock_state = STATE_NOTHING_TO_DELETE
        shown == IF emptied THEN <<>> ELSE DotShown[n]
        frame == composited(s, resolution, overlay, shown, text_colour(s))
        t == xcb_request(s, [req |-> "Draw", id |-> pixmap, size |-> resolution,
                             unlock_state |-> s.unlock_state])
        u == [t EXCEPT !.last_input_position = lip,
                       !.held = still_allocated(s, overlay),
                       !.vistype = root_visual_type(s)]
    IN IF pixmap \in LivePixmaps(u.pixmaps)
       THEN [u EXCEPT !.pixmaps[pixmap].content = frame]
       ELSE u

\* void draw_image(xcb_pixmap_t bg_pixmap, uint32_t *resolution)
draw_image(s, pixmap, resolution) ==
    LET overlay == overlay_drawn(s)
        \* if (input_position > 0) last_input_position = input_position;
        lip == IF overlay /\ s.input_position > 0
               THEN s.input_position ELSE s.last_input_position
        \* string_repeat(text, "•", last_input_position or input_position)
        n == IF s.auth_state \in {STATE_AUTH_WRONG, STATE_I3LOCK_LOCK_FAILED}
             THEN lip ELSE s.input_position
        \* default: if (unlock_state == STATE_NOTHING_TO_DELETE) strcpy(text, "");
        emptied == /\ s.auth_state \notin {STATE_AUTH_VERIFY, STATE_AUTH_LOCK,
                                           STATE_AUTH_WRONG, STATE_I3LOCK_LOCK_FAILED}
                   /\ s.unlock_state = STATE_NOTHING_TO_DELETE
        shown == IF emptied THEN CString(strcpy(DotText[n], 0, <<>>))
                 ELSE DotShown[n]
        frame == composited(s, resolution, overlay, shown, text_colour(s))
        t == xcb_request(s, [req |-> "Draw", id |-> pixmap, size |-> resolution,
                             unlock_state |-> s.unlock_state])
        u == [t EXCEPT !.last_input_position = lip,
                       !.held = still_allocated(s, overlay),
                       !.vistype = root_visual_type(s)]
    IN IF pixmap \in LivePixmaps(u.pixmaps)
       THEN [u EXCEPT !.pixmaps[pixmap].content = frame]
       ELSE u

\* The handle is kept after the pixmap is freed.
free_bg_pixmap_keeps_handle(s) == xcb_free_pixmap(s, s.bg_pixmap)

\* void free_bg_pixmap(void)
free_bg_pixmap(s) ==
    [xcb_free_pixmap(s, s.bg_pixmap) EXCEPT !.bg_pixmap = XCB_NONE]

\* if (bg_pixmap == XCB_NONE) bg_pixmap = create_bg_pixmap(...);
ensure_bg_pixmap(s) ==
    IF s.bg_pixmap = XCB_NONE
    THEN LET c == create_bg_pixmap(s, s.last_resolution)
         IN [c.st EXCEPT !.bg_pixmap = c.id]
    ELSE s

\* A new pixmap is allocated on every redraw, the old one is dropped.
redraw_screen_always_allocates(s) ==
    LET c == create_bg_pixmap(s, s.last_resolution)
        s1 == [c.st EXCEPT !.bg_pixmap = c.id]
        s2 == draw_image(s1, s1.bg_pixmap, s1.last_resolution)
        s3 == xcb_change_window_attributes(s2, s2.bg_pixmap)
        s4 == xcb_clear_area(s3, s3.last_resolution)
    IN xcb_flush(s4)

\* A cached pixmap of another size than last_resolution is replaced.
redraw_screen_checks_size(s) ==
    LET stale == /\ s.bg_pixmap # XCB_NONE
                 /\ s.pixmaps[s.bg_pixmap].size # s.last_resolution
        s0 == IF stale THEN [xcb_free_pixmap(s, s.bg_pixmap) EXCEPT !.bg_pixmap = XCB_NONE]
              ELSE s
        s1 == ensure_bg_pixmap(s0)
        s2 == draw_image(s1, s1.bg_pixmap, s1.last_resolution)
        s3 == xcb_change_window_attributes(s2, s2.bg_pixmap)
        s4 == xcb_clear_area(s3, s3.last_resolution)
    IN xcb_flush(s4)

\* The flush is issued before the window is cleared.
redraw_screen_early_flush(s) ==
    LET s1 == ensure_bg_pixmap(s)
        s2 == draw_image(s1, s1.bg_pixmap, s1.last_resolution)
        s3 == xcb_change_window_attributes(s2, s2.bg_pixmap)
        s4 == xcb_flush(s3)
    IN xcb_clear_area(s4, s4.last_resolution)

\* void redraw_screen(void)
redraw_screen(s) ==
    LET s1 == ensure_bg_pixmap(s)
        s2 == draw_image(s1, s1.bg_pixmap, s1.last_resolution)
        s3 == xcb_change_window_attributes(s2, s2.bg_pixmap)
        s4 == xcb_clear_area(s3, s3.last_resolution)
    IN xcb_flush(s4)

\* The state assignment of clear_indicator.
clear_indicator_state(s) ==
    IF s.input_position = 0
    THEN [s EXCEPT !.unlock_state = STATE_STARTED]
    ELSE [s EXCEPT !.unlock_state = STATE_KEY_PRESSED]

\* The redraw comes before the state assignment.
clear_indicator_redraws_first(s) == clear_indicator_state(redraw_screen(s))

\* void clear_indicator(void)
clear_indicator(s) == redraw_screen(clear_indicator_state(s))

(***************************************************************************)
(* Actions.                                                                *)
(***************************************************************************)
\* A redraw that has to allocate needs an id xcb_generate_id still has.
CanRedraw == bg_pixmap # XCB_NONE \/ next_xid <= MaxPixmaps

Redraw ==
    /\ CanRedraw
    /\ Commit(redraw_screen(State), "redraw_screen")

ClearIndicator ==
    /\ CanRedraw
    /\ Commit(clear_indicator(State), "clear_indicator")

FreeBgPixmap ==
    /\ Len(outq) < MaxQueue
    /\ Commit(free_bg_pixmap(State), "free_bg_pixmap")

\* i3lock.c: the collaborators that write the shared variables.
SetResolution(r) ==
    Commit([State EXCEPT !.last_resolution = r], "env")

SetInput(n) ==
    Commit([State EXCEPT !.input_position = n], "env")

SetUnlockState(u) ==
    Commit([State EXCEPT !.unlock_state = u], "env")

SetAuthState(a) ==
    Commit([State EXCEPT !.auth_state = a], "env")

\* The state when the lock window is up, for a configuration c.
Configured(c) ==
    /\ unlock_state = STATE_STARTED
    /\ auth_state = STATE_AUTH_IDLE
    /\ input_position = 0
    /\ last_input_position = 0
    /\ last_resolution \in Resolutions
    /\ unlock_indicator = c.unlock_indicator
    /\ color = c.color
    /\ img = c.img
    /\ tile = c.tile
    /\ xr_resolutions = c.xr_resolutions
    /\ show_on_screen = c.show_on_screen
    /\ vistype = "NULL"
    /\ bg_pixmap = XCB_NONE
    /\ next_xid = 1
    /\ pixmaps = <<>>
    /\ outq = <<>>
    /\ op = "init"
    /\ reqs = <<>>
    /\ held = {}

ProgInit == \E c \in DefaultConfigs : Configured(c)

FnIdle ==
    /\ fn_in = <<>>
    /\ fn_out = <<>>
    /\ fn_pc = "idle"

RepIdle ==
    /\ rep_dest = <<>>
    /\ rep_str = <<>>
    /\ rep_n = 0
    /\ rep_pc = "idle"

SeqIdle ==
    /\ recent = 0
    /\ turn = "update"
    /\ all_overlay = TRUE
    /\ repeated = FALSE

Init == ProgInit /\ RepIdle /\ SeqIdle /\ FnIdle

Next ==
    \/ Redraw /\ UNCHANGED <<repvars, seqvars, fnvars>>
    \/ ClearIndicator /\ UNCHANGED <<repvars, seqvars, fnvars>>
    \/ FreeBgPixmap /\ UNCHANGED <<repvars, seqvars, fnvars>>
    \/ \E r \in Resolutions : SetResolution(r) /\ UNCHANGED <<repvars, seqvars, fnvars>>
    \/ \E n \in InputLengths : SetInput(n) /\ UNCHANGED <<repvars, seqvars, fnvars>>
    \/ \E u \in UnlockStates : SetUnlockState(u) /\ UNCHANGED <<repvars, seqvars, fnvars>>
    \/ \E a \in AuthStates : SetAuthState(a) /\ UNCHANGED <<repvars, seqvars, fnvars>>

Spec == Init /\ [][Next]_vars

(***************************************************************************)
(* string_repeat on its own: a glyph and a count are chosen, the builder   *)
(* is applied to an empty destination large enough for the capped result.  *)
(***************************************************************************)
RECURSIVE SeqsUpTo(_, _)
SeqsUpTo(S, k) ==
    IF k = 0 THEN {<<>>}
    ELSE LET shorter == SeqsUpTo(S, k - 1)
         IN shorter \cup {Append(q, b) : q \in shorter, b \in S}

Glyphs == SeqsUpTo(GlyphBytes, MaxGlyphLen) \ {<<>>}
RepeatCounts ==
    ((0 - MaxCountSlack)..MaxCountSlack)
        \cup ((MaxGlyphs - MaxCountSlack)..(MaxGlyphs + MaxCountSlack))
RepeatDestSize == MaxGlyphs * MaxGlyphLen + 1

RepInit ==
    /\ rep_str \in Glyphs
    /\ rep_n \in RepeatCounts
    /\ rep_dest = strcpy(malloc(RepeatDestSize), 0, <<>>)
    /\ rep_pc = "ready"

RepeatApply ==
    /\ rep_pc = "ready"
    /\ rep_dest' = string_repeat(rep_dest, rep_str, rep_n)
    /\ rep_pc' = "done"
    /\ UNCHANGED <<rep_str, rep_n>>

InitRepeat == ProgInit /\ RepInit /\ SeqIdle /\ FnIdle

NextRepeat == RepeatApply /\ UNCHANGED <<progvars, seqvars, fnvars>>

SpecRepeat == InitRepeat /\ [][NextRepeat]_vars

(***************************************************************************)
(* The text buffer of draw_image:  text = malloc(256); strcpy(text, "");   *)
(* string_repeat(text, "•", n);  and, in the default branch of the switch, *)
(* strcpy(text, "");  for counts n below zero, around 64 and far from it.  *)
(***************************************************************************)
TextCounts ==
    ((-MaxCountSlack)..(MaxGlyphs + MaxCountSlack))
        \cup {-2147483647, -1000, 1000, 2147483647}

TextInit ==
    /\ rep_str = Dot
    /\ rep_n \in TextCounts
    /\ rep_dest = strcpy(malloc(TextSize), 0, <<>>)
    /\ rep_pc = "ready"

\* default: if (unlock_state == STATE_NOTHING_TO_DELETE) strcpy(text, "");
TextEmptied ==
    /\ rep_pc = "done"
    /\ rep_dest' = strcpy(rep_dest, 0, <<>>)
    /\ rep_pc' = "emptied"
    /\ UNCHANGED <<rep_str, rep_n>>

InitText == ProgInit /\ TextInit /\ SeqIdle /\ FnIdle

NextText ==
    \/ RepeatApply /\ UNCHANGED <<progvars, seqvars, fnvars>>
    \/ TextEmptied /\ UNCHANGED <<progvars, seqvars, fnvars>>

SpecText == InitText /\ [][NextText]_vars

(***************************************************************************)
(* A sequence of input_position updates, each followed by a render.        *)
(* recent is the most recent nonzero value of the updates so far, turn     *)
(* says whose move it is, all_overlay whether every render so far drew     *)
(* the overlay.                                                            *)
(***************************************************************************)
SeqUpdate(n) ==
    /\ turn = "update"
    /\ SetInput(n)
    /\ recent' = IF n > 0 THEN n ELSE recent
    /\ turn' = "render"
    /\ UNCHANGED <<all_overlay, repeated, repvars, fnvars>>

SeqRender ==
    /\ turn = "render"
    /\ (Redraw \/ ClearIndicator)
    /\ turn' = "update"
    /\ all_overlay' = (all_overlay /\ pixmaps'[bg_pixmap'].content.overlay)
    /\ UNCHANGED <<recent, repeated, repvars, fnvars>>

NextSeq ==
    \/ \E n \in InputLengths : SeqUpdate(n)
    \/ SeqRender
    \/ \E u \in UnlockStates : SetUnlockState(u) /\ UNCHANGED <<repvars, seqvars, fnvars>>
    \/ \E a \in AuthStates : SetAuthState(a) /\ UNCHANGED <<repvars, seqvars, fnvars>>

SpecSeq == Init /\ [][NextSeq]_vars

(***************************************************************************)
(* The renders under every configuration.  As in i3lock.c, main first      *)
(* creates a pixmap of its own and has draw_image draw on it; after that   *)
(* come redraw_screen, clear_indicator and draw_image on the cached pixmap.*)
(***************************************************************************)
CreatePixmap ==
    /\ op = "init"
    /\ Commit(create_bg_pixmap(State, last_resolution).st, "create_bg_pixmap")

DrawImage(pixmap) ==
    /\ pixmap \in LivePixmaps(pixmaps)
    /\ Commit(draw_image(State, pixmap, last_resolution), "draw_image")

\* The first draw_image of the process, on the pixmap main has just created.
DrawAtStartup ==
    /\ op = "create_bg_pixmap"
    /\ DrawImage(next_xid - 1)

\* A later draw_image on the cached pixmap; the caller flushes before it
\* draws again.
DrawAgain ==
    /\ outq = <<>>
    /\ DrawImage(bg_pixmap)

\* main has drawn.
Started == op \notin {"init", "create_bg_pixmap"}

InitRender ==
    /\ \E c \in Configs : Configured(c)
    /\ RepIdle /\ SeqIdle /\ FnIdle

\* repeated records that the step is a redraw_screen taken directly after a
\* redraw_screen.
RenderStep(A) ==
    /\ A
    /\ repeated' = (op = "redraw_screen" /\ op' = "redraw_screen")
    /\ UNCHANGED <<recent, turn, all_overlay, repvars, fnvars>>

NextRender ==
    \/ RenderStep(CreatePixmap)
    \/ RenderStep(DrawAtStartup)
    \/ RenderStep(DrawAgain)
    \/ RenderStep(Started /\ Redraw)
    \/ RenderStep(Started /\ ClearIndicator)
    \/ \E n \in InputLengths : RenderStep(Started /\ SetInput(n))
    \/ \E u \in UnlockStates : RenderStep(Started /\ SetUnlockState(u))
    \/ \E a \in AuthStates : RenderStep(Started /\ SetAuthState(a))

SpecRender == InitRender /\ [][NextRender]_vars

(***************************************************************************)
(* The placement of the indicator, for every topology of up to MaxScreens  *)
(* screens and every show_on_screen from unset to past the last screen.    *)
(***************************************************************************)
Topologies == SeqsUpTo(Rects, MaxScreens)
ScreenIndices == (-1)..(MaxScreens + 1)

InitPlace ==
    /\ \E topology \in Topologies, index \in ScreenIndices :
           Configured([color |-> DefaultColor, img |-> FALSE, tile |-> FALSE,
                       xr_resolutions |-> topology, show_on_screen |-> index,
                       unlock_indicator |-> TRUE])
    /\ RepIdle /\ SeqIdle /\ FnIdle

PlaceApply ==
    /\ fn_pc = "idle"
    /\ fn_out' = place_indicator(State)
    /\ fn_pc' = "done"
    /\ UNCHANGED fn_in

NextPlace == PlaceApply /\ UNCHANGED <<progvars, repvars, seqvars>>

SpecPlace == InitPlace /\ [][NextPlace]_vars

(***************************************************************************)
(* The parse of the background colour.  One group of color runs over every *)
(* pair of hexadecimal digits while the other two run over FewPairs.       *)
(***************************************************************************)
HexDigitChars ==
    {HexChars[i] : i \in DOMAIN HexChars}
        \cup {UpperHexChars[i] : i \in DOMAIN UpperHexChars}
AllPairs == {<<a, b>> : a \in HexDigitChars, b \in HexDigitChars}
FewPairs == {<<"0", "0">>, <<"3", "C">>}
ColorsTried ==
    {p \o q \o r : p \in AllPairs, q \in FewPairs, r \in FewPairs}
        \cup {p \o q \o r : p \in FewPairs, q \in AllPairs, r \in FewPairs}
        \cup {p \o q \o r : p \in FewPairs, q \in FewPairs, r \in AllPairs}

InitColor ==
    /\ \E c \in ColorsTried :
           Configured([color |-> c, img |-> FALSE, tile |-> FALSE,
                       xr_resolutions |-> <<>>, show_on_screen |-> -1,
                       unlock_indicator |-> TRUE])
    /\ RepIdle /\ SeqIdle /\ FnIdle

ColorApply ==
    /\ fn_pc = "idle"
    /\ fn_out' \in source_rgb(rgb16(color))
    /\ fn_pc' = "done"
    /\ UNCHANGED fn_in

NextColor == ColorApply /\ UNCHANGED <<progvars, repvars, seqvars>>

SpecColor == InitColor /\ [][NextColor]_vars

(***************************************************************************)
(* Properties.                                                             *)
(***************************************************************************)
Renders == {"redraw_screen", "clear_indicator"}
Requests(rs, kind) == SelectSeq(rs, LAMBDA r : r.req = kind)

\* C1: in every reachable state at most one pixmap is live (created and not
\* yet freed), and a live pixmap is the one bg_pixmap holds.
C1_OneLivePixmap ==
    /\ Cardinality(LivePixmaps(pixmaps)) <= 1
    /\ \A p \in LivePixmaps(pixmaps) : p = bg_pixmap

\* A redraw has allocated a second pixmap after the first one was freed.
C1_Witness ==
    /\ op \in Renders
    /\ bg_pixmap \in LivePixmaps(pixmaps)
    /\ \E p \in DOMAIN pixmaps : ~pixmaps[p].live

\* C2: free_bg_pixmap leaves the cache empty, and a redraw that starts with
\* the cache empty creates a pixmap that did not exist before, of exactly the
\* size last_resolution has at that redraw, and draws into that pixmap and
\* no other.
C2_InvalidateThenRedraw ==
    [][/\ op' = "free_bg_pixmap" => bg_pixmap' = XCB_NONE
       /\ (op' \in Renders /\ bg_pixmap = XCB_NONE) =>
            /\ bg_pixmap' # XCB_NONE
            /\ bg_pixmap' \notin DOMAIN pixmaps
            /\ bg_pixmap' \in LivePixmaps(pixmaps')
            /\ pixmaps'[bg_pixmap'].size = last_resolution'
            /\ pixmaps'[bg_pixmap'].content.cleared = last_resolution'
            /\ Len(Requests(reqs', "Draw")) = 1
            /\ Requests(reqs', "Draw")[1].id = bg_pixmap'
            /\ Requests(reqs', "Draw")[1].size = last_resolution'
            /\ \A p \in DOMAIN pixmaps : pixmaps'[p] = pixmaps[p]]_vars

\* A redraw has just allocated a pixmap at the current resolution, after a
\* pixmap of another size was freed.
C2_Witness ==
    /\ op \in Renders
    /\ Len(Requests(reqs, "CreatePixmap")) = 1
    /\ bg_pixmap \in LivePixmaps(pixmaps)
    /\ pixmaps[bg_pixmap].size = last_resolution
    /\ \E p \in DOMAIN pixmaps :
          ~pixmaps[p].live /\ pixmaps[p].size # last_resolution

C4_NoReleaseWhenEmpty ==
    op = "free_bg_pixmap" =>
        \A i \in 1..Len(reqs) :
            reqs[i].req = "FreePixmap" => reqs[i].id # XCB_NONE

\* C5: the requests of a redraw are, in this order: the creation of the
\* pixmap when none was cached, the drawing into bg_pixmap, the attachment of
\* bg_pixmap as the window's background, the clearing of the whole window at
\* last_resolution, the flush; nothing is left in the output queue.
C5_RedrawOrder ==
    op \in Renders =>
        LET k == Len(reqs)
        IN /\ k \in {4, 5}
           /\ k = 5 => (reqs[1].req = "CreatePixmap" /\ reqs[1].id = bg_pixmap)
           /\ bg_pixmap \in LivePixmaps(pixmaps)
           /\ reqs[k - 3].req = "Draw"
           /\ reqs[k - 3].id = bg_pixmap
           /\ reqs[k - 3].size = last_resolution
           /\ reqs[k - 2] = [req |-> "ChangeWindowAttributes", id |-> bg_pixmap]
           /\ reqs[k - 1] = [req |-> "ClearArea", size |-> last_resolution]
           /\ reqs[k] = [req |-> "Flush"]
           /\ outq = <<>>

\* A redraw that had to allocate has issued its five requests.
C5_Witness ==
    /\ op = "redraw_screen"
    /\ Len(reqs) = 5
    /\ reqs[5].req = "Flush"

\* C6: clear_indicator sets unlock_state to STATE_STARTED when input_position
\* is 0 and to STATE_KEY_PRESSED otherwise, whatever it was, then redraws once,
\* the drawing seeing the new unlock_state; auth_state and input_position are
\* left alone.
C6_ClearIndicator ==
    [][op' = "clear_indicator" =>
        /\ unlock_state' = IF input_position = 0 THEN STATE_STARTED
                           ELSE STATE_KEY_PRESSED
        /\ auth_state' = auth_state
        /\ input_position' = input_position
        /\ Len(Requests(reqs', "Draw")) = 1
        /\ Requests(reqs', "Draw")[1].unlock_state = unlock_state'
        /\ Len(Requests(reqs', "Flush")) = 1]_vars

\* clear_indicator has run with a nonempty buffer.
C6_Witness ==
    /\ op = "clear_indicator"
    /\ input_position > 0
    /\ unlock_state = STATE_KEY_PRESSED

\* C7: after clear_indicator with input_position = 0 the pixmap shown holds
\* no glyph, whatever auth_state and last_input_position are.
C7_ClearHidesIndicator ==
    (op = "clear_indicator" /\ input_position = 0) =>
        pixmaps[bg_pixmap].content.text = <<>>

\* k copies of the glyph g, one after the other.
Copies(g, k) == [i \in 1..(k * Len(g)) |-> g[((i - 1) % Len(g)) + 1]]

\* C8: applied to an empty destination, string_repeat leaves the empty string
\* for n <= 0, exactly 64 copies of the glyph for n > 64 and exactly n copies
\* for 0 < n <= 64, byte for byte and with nothing between them, so that no
\* count yields more than 64 glyphs.
C8_GlyphBuilder ==
    rep_pc = "done" =>
        LET k == IF rep_n <= 0 THEN 0
                 ELSE IF rep_n > MaxGlyphs THEN MaxGlyphs ELSE rep_n
        IN /\ CString(rep_dest) = Copies(rep_str, k)
           /\ Len(CString(rep_dest)) <= MaxGlyphs * Len(rep_str)
           /\ ~rep_dest.oob

\* The dot has been repeated with a count above the cap.
C8_Witness ==
    /\ rep_pc = "done"
    /\ rep_str = Dot
    /\ rep_n > MaxGlyphs
    /\ CString(rep_dest) = Copies(Dot, MaxGlyphs)

\* C9: last_input_position starts at 0; in every step it stays as it is or
\* becomes the current input_position, which is then positive; once nonzero
\* it is never 0 again; free_bg_pixmap and the state assignment of
\* clear_indicator do not change it.
C9_LastDisplayedLength ==
    /\ last_input_position = 0
    /\ [][/\ \/ last_input_position' = last_input_position
             \/ (last_input_position' = input_position' /\ input_position' > 0)
          /\ last_input_position # 0 => last_input_position' # 0
          /\ op' = "free_bg_pixmap" => last_input_position' = last_input_position
          /\ clear_indicator_state(State).last_input_position
                = last_input_position]_vars

\* A render has drawn the overlay with an empty buffer and kept the length
\* remembered before.
C9_Witness ==
    /\ op \in Renders
    /\ pixmaps[bg_pixmap].content.overlay
    /\ input_position = 0
    /\ last_input_position > 0

\* C10 as stated: whenever every update of input_position so far was followed
\* by a render, last_input_position is the most recent nonzero update.
C10_AfterEveryRender ==
    turn = "update" => last_input_position = recent

\* C10: whenever every update of input_position so far was followed by a
\* render that drew the overlay, last_input_position is the most recent
\* nonzero update (0 when there was none).
C10_AfterOverlayRender ==
    (turn = "update" /\ all_overlay) => last_input_position = recent

\* A nonzero update and then a zero update were each rendered with the
\* overlay: the nonzero length is still remembered.
C10_Witness ==
    /\ turn = "update"
    /\ all_overlay
    /\ op \in Renders
    /\ input_position = 0
    /\ recent > 0
    /\ last_input_position = recent

\* C11: a redraw_screen that directly follows a redraw_screen, no input
\* having changed in between, leaves the contents of every pixmap, the handle
\* bg_pixmap and last_input_position as the first left them.
C11_RedrawIdempotent ==
    [][(op = "redraw_screen" /\ op' = "redraw_screen") =>
        /\ pixmaps' = pixmaps
        /\ bg_pixmap' = bg_pixmap
        /\ last_input_position' = last_input_position]_vars

\* redraw_screen ran twice in a row and both frames show the remembered
\* glyphs of a wrong password.
C11_Witness ==
    /\ repeated
    /\ op = "redraw_screen"
    /\ auth_state = STATE_AUTH_WRONG
    /\ pixmaps[bg_pixmap].content.overlay
    /\ Len(pixmaps[bg_pixmap].content.text) > 0

\* C12: with an empty topology the indicator is centred at half of
\* last_resolution with offset (0, 0); with a nonempty topology it is centred
\* at half the width and height of the screen show_on_screen names, offset
\* by that screen's x and y, when show_on_screen is an index of the topology,
\* and of screen 0 otherwise; xr_resolutions is only read at indices from 0
\* to xr_screens - 1.
C12_ScreenPlacement ==
    fn_pc = "done" =>
        LET length == Len(xr_resolutions)
            index == IF show_on_screen \in 0..(length - 1)
                     THEN show_on_screen ELSE 0
        IN IF length = 0
           THEN /\ fn_out.center = <<last_resolution[1] \div 2,
                                     last_resolution[2] \div 2>>
                /\ fn_out.offset = <<0, 0>>
                /\ fn_out.read = {}
           ELSE /\ fn_out.center = <<xr_resolutions[index + 1].width \div 2,
                                     xr_resolutions[index + 1].height \div 2>>
                /\ fn_out.offset = <<xr_resolutions[index + 1].x,
                                     xr_resolutions[index + 1].y>>
                /\ fn_out.read \subseteq 0..(length - 1)

\* A screen past the end of a topology of two different screens was asked
\* for, and screen 0 was read.
C12_Witness ==
    /\ fn_pc = "done"
    /\ Len(xr_resolutions) = 2
    /\ xr_resolutions[1] # xr_resolutions[2]
    /\ show_on_screen >= 2
    /\ fn_out.read = {0}
    /\ fn_out.offset = <<xr_resolutions[1].x, xr_resolutions[1].y>>

\* The value of the i-th group of two hexadecimal digits of c.
GroupValue(c, i) == 16 * hex_digit(c[2 * i - 1]) + hex_digit(c[2 * i])

\* A fraction times 255, rounded to the nearest integer.
RoundTimes255(q) == (2 * 255 * q + FracScale) \div (2 * FracScale)

\* C13: for a color of six hexadecimal digits the channels handed to cairo
\* are, in the order red, green, blue, the values of the first, second and
\* third group of two digits divided by 255 (to within one unit of the last
\* place kept); each lies in [0, 1], and times 255, rounded, it is the value
\* of its group again, which lies in 0..255.
C13_ColorRoundTrip ==
    fn_pc = "done" =>
        \A i \in 1..3 :
            /\ fn_out[i] \in 0..FracScale
            /\ 255 * fn_out[i] - GroupValue(color, i) * FracScale \in (-254)..254
            /\ RoundTimes255(fn_out[i]) = GroupValue(color, i)
            /\ GroupValue(color, i) \in 0..255

\* A colour with three different groups, one with an upper-case digit, whose
\* red channel is no exact fraction, has been parsed.
C13_Witness ==
    /\ fn_pc = "done"
    /\ GroupValue(color, 1) # GroupValue(color, 2)
    /\ GroupValue(color, 2) # GroupValue(color, 3)
    /\ GroupValue(color, 1) # GroupValue(color, 3)
    /\ \E i \in 1..6 : color[i] = "C"
    /\ 255 * fn_out[1] # GroupValue(color, 1) * FracScale

\* The steps that run draw_image, and the contents of the pixmap the step
\* just taken drew on.
Draws == Renders \cup {"draw_image"}
Drawn == pixmaps[Requests(reqs, "Draw")[1].id].content

\* C14: a render draws the overlay exactly when unlock_indicator is set and
\* unlock_state is STATE_KEY_PRESSED or later or auth_state is not
\* STATE_AUTH_IDLE (the states as draw_image sees them); a render that skips
\* the overlay leaves a frame of the background colour and the image alone,
\* without glyphs, and leaves last_input_position as it was, whatever
\* input_position is.
C14_OverlayCondition ==
    [][op' \in Draws =>
        LET frame == pixmaps'[Requests(reqs', "Draw")[1].id].content
            enabled == /\ unlock_indicator'
                       /\ \/ unlock_state' \in {STATE_KEY_PRESSED, STATE_KEY_ACTIVE,
                                               STATE_BACKSPACE_ACTIVE,
                                               STATE_NOTHING_TO_DELETE}
                          \/ auth_state' # STATE_AUTH_IDLE
        IN /\ frame.overlay = enabled
           /\ ~enabled =>
                /\ frame.text = <<>>
                /\ frame.rgb = <<>>
                /\ frame.at = <<>>
                /\ frame.bg = <<GroupValue(color, 1), GroupValue(color, 2),
                                GroupValue(color, 3)>>
                /\ frame.image = (IF img THEN (IF tile THEN "tiled" ELSE "painted")
                                  ELSE "none")
                /\ last_input_position' = last_input_position]_vars

\* With the indicator enabled, a render in STATE_STARTED and STATE_AUTH_IDLE
\* over a nonempty buffer drew the image without the overlay and remembered
\* nothing.
C14_Witness ==
    /\ op \in Draws
    /\ unlock_indicator
    /\ unlock_state = STATE_STARTED
    /\ auth_state = STATE_AUTH_IDLE
    /\ input_position > 0
    /\ last_input_position = 0
    /\ ~Drawn.overlay
    /\ Drawn.image = "painted"

\* The lesser of two numbers.
Least(a, b) == IF a <= b THEN a ELSE b

\* C15: a frame with the overlay shows min(64, last_input_position) dots, with
\* last_input_position as the render left it, when auth_state is
\* STATE_AUTH_WRONG or STATE_I3LOCK_LOCK_FAILED, and min(64, input_position)
\* dots when it is STATE_AUTH_VERIFY or STATE_AUTH_LOCK.
C15_GlyphCount ==
    (op \in Draws /\ Drawn.overlay) =>
        LET text == Drawn.text
        IN /\ auth_state \in {STATE_AUTH_WRONG, STATE_I3LOCK_LOCK_FAILED} =>
                text = Copies(Dot, Least(MaxGlyphs, last_input_position))
           /\ auth_state \in {STATE_AUTH_VERIFY, STATE_AUTH_LOCK} =>
                text = Copies(Dot, Least(MaxGlyphs, input_position))

\* After a wrong password, with a key pressed and the buffer empty again, the
\* frame shows as many dots as the length remembered from before.
C15_Witness ==
    /\ op \in Draws
    /\ auth_state = STATE_AUTH_WRONG
    /\ unlock_state = STATE_KEY_PRESSED
    /\ input_position = 0
    /\ last_input_position \in 1..MaxGlyphs
    /\ Drawn.overlay
    /\ Len(Drawn.text) = Len(Dot) * last_input_position

\* C16: the colour of the glyphs of a frame with the overlay is (84, 110, 122)
\* for STATE_AUTH_VERIFY and STATE_AUTH_LOCK; for STATE_AUTH_WRONG it is
\* (255, 83, 112) in STATE_STARTED and white in every later unlock_state; it is
\* (255, 83, 112) for STATE_I3LOCK_LOCK_FAILED in every unlock_state, and white
\* for STATE_AUTH_IDLE (channels over 255).
C16_GlyphColour ==
    (op \in Draws /\ Drawn.overlay) =>
        LET rgb == Drawn.rgb
        IN /\ auth_state \in {STATE_AUTH_VERIFY, STATE_AUTH_LOCK} =>
                rgb = <<84, 110, 122>>
           /\ (auth_state = STATE_AUTH_WRONG /\ unlock_state = STATE_STARTED) =>
                rgb = <<255, 83, 112>>
           /\ (auth_state = STATE_AUTH_WRONG /\ unlock_state # STATE_STARTED) =>
                rgb = <<255, 255, 255>>
           /\ auth_state = STATE_I3LOCK_LOCK_FAILED => rgb = <<255, 83, 112>>
           /\ auth_state = STATE_AUTH_IDLE => rgb = <<255, 255, 255>>
           /\ auth_state \in AuthStates

\* A wrong password was drawn in white while a key was active.
C16_Witness ==
    /\ op \in Draws
    /\ Drawn.overlay
    /\ auth_state = STATE_AUTH_WRONG
    /\ unlock_state = STATE_KEY_ACTIVE
    /\ Drawn.rgb = White
    /\ Drawn.text # <<>>

\* C17: with STATE_AUTH_IDLE and STATE_NOTHING_TO_DELETE a frame with the
\* overlay shows no glyph, whatever input_position and last_input_position
\* are; with any other auth_state and STATE_NOTHING_TO_DELETE it shows the
\* glyphs counted from last_input_position or input_position as in every
\* other unlock_state.
C17_NothingToDelete ==
    (/\ op \in Draws
     /\ Drawn.overlay
     /\ unlock_state = STATE_NOTHING_TO_DELETE) =>
        LET text == Drawn.text
            n == IF auth_state \in {STATE_AUTH_WRONG, STATE_I3LOCK_LOCK_FAILED}
                 THEN last_input_position ELSE input_position
        IN IF auth_state = STATE_AUTH_IDLE
           THEN text = <<>>
           ELSE Len(text) = Len(Dot) * Least(MaxGlyphs, n)

\* With STATE_AUTH_IDLE and STATE_NOTHING_TO_DELETE a nonempty buffer and a
\* nonzero remembered length were drawn as no glyph at all.
C17_Witness ==
    /\ op \in Draws
    /\ Drawn.overlay
    /\ auth_state = STATE_AUTH_IDLE
    /\ unlock_state = STATE_NOTHING_TO_DELETE
    /\ input_position > 0
    /\ last_input_position > 0
    /\ Drawn.text = <<>>

\* What draw_image must leave alone whatever the claim: the states and the
\* input it reads, the configuration, the cache handle, the set of pixmaps
\* with their sizes and liveness, and every pixmap but the one it is given;
\* and its only requests are drawing requests, which stay in the queue.
DrawImageFrame ==
    /\ UNCHANGED <<unlock_state, auth_state, input_position, last_resolution,
                   xr_resolutions, show_on_screen, unlock_indicator, color,
                   img, tile, bg_pixmap, next_xid>>
    /\ DOMAIN pixmaps' = DOMAIN pixmaps
    /\ \A p \in DOMAIN pixmaps :
           /\ pixmaps'[p].size = pixmaps[p].size
           /\ pixmaps'[p].live = pixmaps[p].live
           /\ p # Requests(reqs', "Draw")[1].id => pixmaps'[p] = pixmaps[p]
    /\ \A i \in DOMAIN reqs' : reqs'[i].req = "Draw"
    /\ outq' = outq \o reqs'

\* C18 as stated: draw_image changes nothing of the shared state but the
\* contents of the pixmap it is given and last_input_position, and issues no
\* request to change window attributes, to clear an area or to flush.
C18_AsStated ==
    [][op' = "draw_image" => (DrawImageFrame /\ vistype' = vistype)]_vars

\* C18: draw_image changes nothing of the shared state but the contents of
\* the pixmap it is given, last_input_position and, when it is still NULL,
\* the cached visual type vistype; it issues no request to change window
\* attributes, to clear an area or to flush.
C18_RenderFrame ==
    [][op' = "draw_image" =>
        /\ DrawImageFrame
        /\ vistype' # vistype => vistype = "NULL"]_vars

\* draw_image by itself drew the overlay on the cached pixmap over a nonempty
\* buffer and remembered its length, with its one request still in the queue
\* and the visual type as main's draw had left it.
C18_Witness ==
    /\ op = "draw_image"
    /\ Drawn.overlay
    /\ input_position > 0
    /\ last_input_position = input_position
    /\ Len(reqs) = 1
    /\ outq = reqs
    /\ vistype = "root_visual"

\* C19: whatever the count, negative or far above 64, everything written to
\* the 256-byte text buffer, the terminators included, lies inside it: no
\* write falls before its first or after its last byte, and with the 3-byte
\* dot no byte above index 64 * 3 = 192 is ever written.
C19_TextInBounds ==
    rep_pc \in {"done", "emptied"} =>
        /\ ~rep_dest.oob
        /\ DOMAIN rep_dest.mem = 0..(TextSize - 1)
        /\ \A i \in DOMAIN rep_dest.mem :
               rep_dest.mem[i] # Uninit => i <= MaxGlyphs * Len(Dot)
        /\ MaxGlyphs * Len(Dot) = 192

\* A count far above 64 filled the buffer up to the terminator at index 192.
C19_Witness ==
    /\ rep_pc = "done"
    /\ rep_n > 2 * MaxGlyphs
    /\ rep_dest.mem[MaxGlyphs * Len(Dot)] = NUL
    /\ rep_dest.mem[MaxGlyphs * Len(Dot) - 1] = Dot[Len(Dot)]
    /\ rep_dest.mem[0] = Dot[1]

\* C20: when a step that renders returns, nothing that draw_image allocated
\* during it (the image surface output, the contexts ctx and xcb_ctx, the
\* surface xcb_output wrapping the pixmap, the tiling pattern, the buffer
\* text) is still allocated.
C20_AllReleased ==
    op \in Draws => held = {}

====
